---- MODULE Spec2Model ----
(***************************************************************************)
(* Model of stable_baselines/common/cmd_util.py: the environment           *)
(* constructors (make_vec_env, make_atari_env, make_mujoco_env,            *)
(* make_robotics_env) and the argument-parser constructors.                *)
(*                                                                         *)
(* Python values:  None is the empty sequence <<>>, a present value v is   *)
(* <<v>>; a dict is a set of <<key, value>> pairs; a path is the sequence  *)
(* of its components and a string produced by str() is the sequence of     *)
(* its characters.                                                         *)
(***************************************************************************)
EXTENDS Integers, Sequences, FiniteSets, TLC

VARIABLES pc, fn, args, global_seed, vec, slots, fs, result,
          heap, handles, ns

envVars == <<pc, fn, args, global_seed, vec, slots, fs, result>>
parserVars == <<heap, handles, ns>>
vars == <<pc, fn, args, global_seed, vec, slots, fs, result, heap, handles, ns>>

\* ------------------------------------------------------------------ bounds
MaxEnvs == 3
MaxSeed == 1
MaxMpiRank == 1

None == << >>
Some(v) == <<v>>
IsNone(o) == o = << >>
Val(o) == o[1]

\* ------------------------------------------------------------ input sets
EnvIdStr == [kind |-> "str", name |-> "CartPole-v1"]
EnvIdClass == [kind |-> "class", name |-> "CustomEnv"]
EnvCounts == 1..MaxEnvs
Seeds == 0..MaxSeed
StartIndices == {-1, 0, 9}
Paths == {<<"logs">>}
KwargDicts == {{}, {<<"size", 5>>}}
StartMethods == {None, Some("spawn")}

\* ---------------------------------------------------------- name scoping
\* Names bound at module level (imports and defs), lines 5-15 and the defs.
ModuleGlobals ==
    {"os", "gym", "FlattenDictWrapper", "logger", "Monitor", "set_global_seeds",
     "make_atari", "wrap_deepmind", "mpi_rank_or_zero", "DummyVecEnv",
     "SubprocVecEnv", "make_vec_env", "make_atari_env", "make_mujoco_env",
     "make_robotics_env", "arg_parser", "atari_arg_parser", "mujoco_arg_parser",
     "robotics_arg_parser"}

Builtins == {"isinstance", "str", "range", "int"}

\* Python name resolution: a name assigned anywhere in a function body is
\* local to it for the whole body; otherwise enclosing function scopes,
\* then module globals and builtins.
LookupName(name, locals, bound, enclosing) ==
    IF name \in locals
    THEN (IF name \in bound THEN "local" ELSE "UnboundLocalError")
    ELSE IF name \in enclosing THEN "free"
    ELSE IF name \in ModuleGlobals \cup Builtins THEN "global"
    ELSE "NameError"

IsError(r) == r \in {"UnboundLocalError", "NameError"}

\* ------------------------------------------------------------ str / join
DigitChar == <<"0", "1", "2", "3", "4", "5", "6", "7", "8", "9">>

RECURSIVE StrNat(_)
StrNat(n) ==
    IF n < 10 THEN <<DigitChar[n + 1]>>
    ELSE StrNat(n \div 10) \o <<DigitChar[(n % 10) + 1]>>

\* str(rank) for an int
Str(n) == IF n < 0 THEN <<"-">> \o StrNat(0 - n) ELSE StrNat(n)

\* os.path.join(path, component) for a relative component
Join(path, comp) == Append(path, comp)

\* ------------------------------------------------------------ environments
NewEnv(ctor, id, kwargs) ==
    [ctor |-> ctor, id |-> id, kwargs |-> kwargs, seed |-> None,
     action_space_seed |-> None, wrappers |-> << >>]

Wrap(env, w) == [env EXCEPT !.wrappers = Append(@, w)]

MonitorWrapper(filename, allow_early_resets, info_keywords) ==
    [name |-> "Monitor", filename |-> filename,
     allow_early_resets |-> allow_early_resets, info_keywords |-> info_keywords]

IsMonitored(env) == \E i \in 1..Len(env.wrappers) : env.wrappers[i].name = "Monitor"

Raise(exc, env, mkdirs) == [kind |-> "raise", exc |-> exc, env |-> env, mkdirs |-> mkdirs]
Built(env, mkdirs) == [kind |-> "built", exc |-> "", env |-> Some(env), mkdirs |-> mkdirs]

\* ------------------------------------------------- make_vec_env (18-66)
MakeVecEnvLocals ==
    {"env_id", "n_envs", "seed", "start_index", "use_subprocess", "start_method",
     "monitor_path", "wrapper_class", "env_kwargs", "make_env"}
MakeEnvLocals == {"rank", "_init"}
\* names assigned in the body of _init (lines 40, 42, 48, 52, 55)
InitLocals == {"env", "monitor_path"}

\* line 36
EnvKwargs(a) == IF IsNone(a.env_kwargs) THEN {} ELSE Val(a.env_kwargs)

\* lines 39-42
InitMakeEnv(a) ==
    IF a.env_id.kind = "str"
    THEN NewEnv("gym.make", a.env_id.name, {})
    ELSE NewEnv("class", a.env_id.name, EnvKwargs(a))

\* lines 43-45
InitSeed(a, env) ==
    IF ~IsNone(a.seed)
    THEN [env EXCEPT !.seed = a.seed, !.action_space_seed = a.seed]
    ELSE env

\* lines 50-56, given the value line 48 assigned to the local monitor_path
InitTail(a, env, mp) ==
    LET l51 == LookupName("log_dir", InitLocals, {"env", "monitor_path"},
                          MakeEnvLocals \cup MakeVecEnvLocals)
        mon == Wrap(env, MonitorWrapper(mp, None, None))
        out == IF ~IsNone(a.wrapper_class)
               THEN Wrap(mon, [name |-> Val(a.wrapper_class)])
               ELSE mon
    IN  IF IsNone(mp) THEN Built(out, {})
        \* line 51 names log_dir, which no scope binds
        ELSE IF IsError(l51) THEN Raise(l51, Some(env), {})
        ELSE Built(out, {<<"log_dir">>})

\* make_env(rank)._init, lines 38-56
Init_(a, rank) ==
    LET env == InitSeed(a, InitMakeEnv(a))
        \* line 48 reads monitor_path before the assignment has bound it
        l48 == LookupName("monitor_path", InitLocals, {"env"},
                          MakeEnvLocals \cup MakeVecEnvLocals)
    IN  IF IsError(l48)
        THEN Raise(l48, Some(env), {})
        ELSE LET src == IF l48 = "free" THEN a.monitor_path ELSE None
                 mp == IF ~IsNone(src) THEN Some(Join(Val(src), Str(rank))) ELSE None
             IN  InitTail(a, env, mp)

\* lines 62-66 and 101-105: the single/multi-environment switch
VecEnvClass(count, use_subprocess) ==
    IF count = 1 \/ ~use_subprocess THEN "DummyVecEnv" ELSE "SubprocVecEnv"

\* [make_env(i + start_index) for i in range(count)]
EnvFns(count, start_index) == [i \in 1..count |-> [rank |-> (i - 1) + start_index]]

MakeVec(count, a) ==
    LET cls == VecEnvClass(count, a.use_subprocess)
    IN  [cls |-> cls,
         start_method |-> IF cls = "SubprocVecEnv" THEN a.start_method ELSE None,
         env_fns |-> EnvFns(count, a.start_index)]

Pending == [kind |-> "pending", exc |-> "", env |-> None, mkdirs |-> {}]
NoVec == [cls |-> "none", start_method |-> None, env_fns |-> << >>]
NoResult == [kind |-> "none"]

MakeVecEnvArgs ==
    [env_id : {EnvIdStr, EnvIdClass}, n_envs : EnvCounts,
     seed : {None} \cup {Some(s) : s \in Seeds}, start_index : StartIndices,
     use_subprocess : BOOLEAN, start_method : StartMethods,
     monitor_path : {None} \cup {Some(p) : p \in Paths},
     wrapper_class : {None, Some("TimeLimit")},
     env_kwargs : {None} \cup {Some(d) : d \in KwargDicts}]

\* make_vec_env up to the VecEnv constructor call (lines 36-37, 59-66)
make_vec_env(a) ==
    /\ pc = "idle"
    /\ pc' = "constructing"
    /\ fn' = "make_vec_env"
    /\ args' = a
    /\ global_seed' = IF ~IsNone(a.seed) THEN a.seed ELSE global_seed
    /\ vec' = MakeVec(a.n_envs, a)
    /\ slots' = [i \in 1..a.n_envs |-> Pending]
    /\ result' = NoResult
    /\ UNCHANGED <<fs, heap, handles, ns>>

\* ------------------------------------------------ make_atari_env (69-105)
\* Thunk with a late-binding closure: every factory sees the rank of the
\* last factory created
ThunkLastRank(a, rank) ==
    LET last == a.start_index + a.num_env - 1
        env == [NewEnv("make_atari", a.env_id, {}) EXCEPT !.seed = Some(a.seed + last)]
        filename == IF IsNone(a.logger_dir) THEN None
                    ELSE Some(Join(Val(a.logger_dir), Str(last)))
        mon == Wrap(env, MonitorWrapper(filename, Some(a.allow_early_resets), None))
    IN  Built(Wrap(mon, [name |-> "wrap_deepmind", kwargs |-> a.wrapper_kwargs]), {})

\* make_env(rank)._thunk, lines 91-96
Thunk(a, rank) ==
    LET env == [NewEnv("make_atari", a.env_id, {}) EXCEPT !.seed = Some(a.seed + rank)]
        filename == IF IsNone(a.logger_dir) THEN None
                    ELSE Some(Join(Val(a.logger_dir), Str(rank)))
        mon == Wrap(env, MonitorWrapper(filename, Some(a.allow_early_resets), None))
    IN  Built(Wrap(mon, [name |-> "wrap_deepmind", kwargs |-> a.wrapper_kwargs]), {})

MakeAtariEnvArgs ==
    [env_id : {"BreakoutNoFrameskip-v4"}, num_env : EnvCounts, seed : Seeds,
     wrapper_kwargs : {{}}, start_index : StartIndices,
     allow_early_resets : BOOLEAN, start_method : StartMethods,
     use_subprocess : BOOLEAN, logger_dir : {None} \cup {Some(p) : p \in Paths}]

\* make_atari_env up to the VecEnv constructor call (lines 87-90, 98-105)
make_atari_env(a) ==
    /\ pc = "idle"
    /\ pc' = "constructing"
    /\ fn' = "make_atari_env"
    /\ args' = a
    /\ global_seed' = Some(a.seed)
    /\ vec' = MakeVec(a.num_env, a)
    /\ slots' = [i \in 1..a.num_env |-> Pending]
    /\ result' = NoResult
    /\ UNCHANGED <<fs, heap, handles, ns>>

\* ------------------------------------------- the VecEnv constructors
\* The factory the vec env calls for slot k
CallEnvFn(k) ==
    IF fn = "make_vec_env" THEN Init_(args, vec.env_fns[k].rank)
    ELSE Thunk(args, vec.env_fns[k].rank)

\* DummyVecEnv calls the factories in order in the caller's process;
\* SubprocVecEnv runs each factory in its own worker process.
MayRun(k) ==
    /\ slots[k].kind = "pending"
    /\ vec.cls = "DummyVecEnv" =>
          \A j \in 1..(k - 1) : slots[j].kind = "built"

RunEnvFn(k) ==
    /\ pc = "constructing"
    /\ k \in 1..Len(slots)
    /\ MayRun(k)
    /\ LET out == CallEnvFn(k)
       IN  /\ slots' = [slots EXCEPT ![k] = out]
           /\ fs' = fs \cup out.mkdirs
    /\ UNCHANGED <<pc, fn, args, global_seed, vec, result, heap, handles, ns>>

AnyRaised == \E k \in 1..Len(slots) : slots[k].kind = "raise"
AllBuilt == \A k \in 1..Len(slots) : slots[k].kind = "built"
NonePending == \A k \in 1..Len(slots) : slots[k].kind # "pending"
FirstRaised == CHOOSE k \in 1..Len(slots) :
                  /\ slots[k].kind = "raise"
                  /\ \A j \in 1..(k - 1) : slots[j].kind # "raise"

\* The constructor returns the vec env, or the call raises.
VecEnvDone ==
    /\ pc = "constructing"
    /\ \/ /\ AllBuilt
          /\ result' = [kind |-> "return", cls |-> vec.cls,
                        start_method |-> vec.start_method,
                        envs |-> [k \in 1..Len(slots) |-> Val(slots[k].env)]]
       \/ /\ AnyRaised
          /\ vec.cls = "SubprocVecEnv" => NonePending
          /\ result' = [kind |-> "raise",
                        exc |-> IF vec.cls = "DummyVecEnv"
                                THEN slots[FirstRaised].exc ELSE "EOFError"]
    /\ pc' = "done"
    /\ UNCHANGED <<fn, args, global_seed, vec, slots, fs, heap, handles, ns>>

\* ----------------------------------------------- make_mujoco_env (108-121)
MakeMujocoEnvLocals == {"env_id", "seed", "allow_early_resets", "env"}

MakeMujocoEnvArgs ==
    [env_id : {"Reacher-v2"}, seed : Seeds, allow_early_resets : BOOLEAN,
     mpi_rank : 0..MaxMpiRank, logger_dir : {None} \cup {Some(p) : p \in Paths}]

\* lines 118-121
MujocoBody(a) ==
    LET env == NewEnv("gym.make", a.env_id, {})
        l119 == LookupName("rank", MakeMujocoEnvLocals,
                           {"env_id", "seed", "allow_early_resets", "env"}, {})
    IN  \* line 119 names rank, which no scope of this function binds
        IF IsError(l119) THEN [kind |-> "raise", exc |-> l119]
        ELSE IF IsNone(a.logger_dir) THEN [kind |-> "raise", exc |-> "TypeError"]
        ELSE [kind |-> "return",
              env |-> [Wrap(env, MonitorWrapper(Some(Join(Val(a.logger_dir), <<"rank">>)),
                                                Some(a.allow_early_resets), None))
                       EXCEPT !.seed = Some(a.seed)]]

make_mujoco_env(a) ==
    /\ pc = "idle"
    /\ pc' = "done"
    /\ fn' = "make_mujoco_env"
    /\ args' = a
    /\ global_seed' = Some(a.seed + 10000 * a.mpi_rank)
    /\ vec' = NoVec
    /\ slots' = << >>
    /\ result' = MujocoBody(a)
    /\ UNCHANGED <<fs, heap, handles, ns>>

\* --------------------------------------------- make_robotics_env (124-141)
MakeRoboticsEnvArgs ==
    [env_id : {"FetchReach-v0"}, seed : Seeds, rank : {0, 10},
     allow_early_resets : BOOLEAN, logger_dir : {None} \cup {Some(p) : p \in Paths}]

RoboticsBody(a) ==
    LET env == Wrap(NewEnv("gym.make", a.env_id, {}),
                    [name |-> "FlattenDictWrapper",
                     dict_keys |-> <<"observation", "desired_goal">>])
        filename == IF IsNone(a.logger_dir) THEN None
                    ELSE Some(Join(Val(a.logger_dir), Str(a.rank)))
        mon == Wrap(env, MonitorWrapper(filename, Some(a.allow_early_resets),
                                        Some(<<"is_success">>)))
    IN  [kind |-> "return", env |-> [mon EXCEPT !.seed = Some(a.seed)]]

make_robotics_env(a) ==
    /\ pc = "idle"
    /\ pc' = "done"
    /\ fn' = "make_robotics_env"
    /\ args' = a
    /\ global_seed' = Some(a.seed)
    /\ vec' = NoVec
    /\ slots' = << >>
    /\ result' = RoboticsBody(a)
    /\ UNCHANGED <<fs, heap, handles, ns>>

\* The caller takes the result (or the exception) and is free to call again.
Return ==
    /\ pc = "done"
    /\ pc' = "idle"
    /\ fn' = ""
    /\ args' = << >>
    /\ vec' = NoVec
    /\ slots' = << >>
    /\ result' = NoResult
    /\ UNCHANGED <<global_seed, fs, heap, handles, ns>>

Init ==
    /\ pc = "idle"
    /\ fn = ""
    /\ args = << >>
    /\ global_seed = None
    /\ vec = NoVec
    /\ slots = << >>
    /\ fs = {}
    /\ result = NoResult
    /\ heap = << >>
    /\ handles = << >>
    /\ ns = << >>

Next ==
    \/ \E a \in MakeVecEnvArgs : make_vec_env(a)
    \/ \E a \in MakeAtariEnvArgs : make_atari_env(a)
    \/ \E k \in 1..MaxEnvs : RunEnvFn(k)
    \/ VecEnvDone
    \/ \E a \in MakeMujocoEnvArgs : make_mujoco_env(a)
    \/ \E a \in MakeRoboticsEnvArgs : make_robotics_env(a)
    \/ Return

Spec == Init /\ [][Next]_vars

\* ------------------------------------------------ argument parsers (144-191)
MaxParsers == 2

\* An option string is the sequence of its parts: '--num-timesteps' is
\* <<"--", "num", "-", "timesteps">>.
FlagEnv == <<"--", "env">>
FlagSeed == <<"--", "seed">>
FlagNumTimesteps == <<"--", "num", "-", "timesteps">>
FlagPlay == <<"--", "play">>
FlagLogDir == <<"--", "log", "-", "dir">>

\* argparse derives dest from the first long option string: the prefix
\* '--' is stripped and every '-' becomes '_'.
RECURSIVE ReplaceDash(_)
ReplaceDash(ws) ==
    IF ws = << >> THEN << >>
    ELSE <<IF Head(ws) = "-" THEN "_" ELSE Head(ws)>> \o ReplaceDash(Tail(ws))

Dest(flag) == ReplaceDash(Tail(flag))

RECURSIVE Pow10(_)
Pow10(e) == IF e = 0 THEN 1 ELSE 10 * Pow10(e - 1)

\* int(1e7), int(1e6): the float m * 10^e truncated to an int
IntOfFloat(m, e) == m * Pow10(e)

Option(flag, type, default, action) ==
    [flag |-> flag, type |-> type, default |-> default, action |-> action]

\* AtariOptions with the num-timesteps default of the other two parsers
AtariOptionsShortRun ==
    << Option(FlagEnv, "none", "BreakoutNoFrameskip-v4", "store"),
       Option(FlagSeed, "int", 0, "store"),
       Option(FlagNumTimesteps, "int", IntOfFloat(1, 6), "store") >>

\* lines 161-163
AtariOptions ==
    << Option(FlagEnv, "none", "BreakoutNoFrameskip-v4", "store"),
       Option(FlagSeed, "int", 0, "store"),
       Option(FlagNumTimesteps, "int", IntOfFloat(1, 7), "store") >>

\* lines 174-177
MujocoOptions ==
    << Option(FlagEnv, "str", "Reacher-v2", "store"),
       Option(FlagSeed, "int", 0, "store"),
       Option(FlagNumTimesteps, "int", IntOfFloat(1, 6), "store"),
       Option(FlagPlay, "none", FALSE, "store_true") >>

\* lines 188-190
RoboticsOptions ==
    << Option(FlagEnv, "str", "FetchReach-v0", "store"),
       Option(FlagSeed, "int", 0, "store"),
       Option(FlagNumTimesteps, "int", IntOfFloat(1, 6), "store") >>

\* Options a script adds to a parser it got from one of the constructors
ExtraOptions ==
    { Option(FlagPlay, "none", FALSE, "store_true"),
      Option(FlagLogDir, "str", "logs", "store") }

\* arg_parser(), line 151: a new ArgumentParser object on every call
ArgParser(h) == [id |-> Len(h) + 1, heap |-> Append(h, [options |-> << >>])]

HasFlag(parser, flag) ==
    \E i \in 1..Len(parser.options) : parser.options[i].flag = flag

\* parser.add_argument: a second option with the same option string is an
\* ArgumentError and leaves the parser as it was
AddArgument(parser, opt) ==
    IF HasFlag(parser, opt.flag)
    THEN [ok |-> FALSE, parser |-> parser]
    ELSE [ok |-> TRUE, parser |-> [parser EXCEPT !.options = Append(@, opt)]]

RECURSIVE AddArguments(_, _)
AddArguments(parser, opts) ==
    IF opts = << >> THEN parser
    ELSE AddArguments(AddArgument(parser, Head(opts)).parser, Tail(opts))

\* The body shared by the three constructors: parser = arg_parser(), the
\* add_argument calls on it, return parser.
MakeParser(maker, opts) ==
    /\ Len(handles) < MaxParsers
    /\ LET p == ArgParser(heap)
       IN  /\ heap' = [p.heap EXCEPT ![p.id] = AddArguments(@, opts)]
           /\ handles' = Append(handles, [maker |-> maker, id |-> p.id, added |-> {}])
    /\ UNCHANGED <<pc, fn, args, global_seed, vec, slots, fs, result, ns>>

arg_parser == MakeParser("arg_parser", << >>)
atari_arg_parser == MakeParser("atari_arg_parser", AtariOptions)
mujoco_arg_parser == MakeParser("mujoco_arg_parser", MujocoOptions)
robotics_arg_parser == MakeParser("robotics_arg_parser", RoboticsOptions)

\* A script adds an option of its own to the parser behind handle h.
add_argument(h, opt) ==
    /\ h \in 1..Len(handles)
    /\ LET r == AddArgument(heap[handles[h].id], opt)
       IN  /\ r.ok
           /\ heap' = [heap EXCEPT ![handles[h].id] = r.parser]
           /\ handles' = [handles EXCEPT ![h].added = @ \cup {opt}]
    /\ UNCHANGED <<pc, fn, args, global_seed, vec, slots, fs, result, ns>>

\* ---- parse_args
Digits == {DigitChar[i] : i \in 1..10}
DigitValue(c) == (CHOOSE i \in 1..10 : DigitChar[i] = c) - 1
IsDigits(cs) == cs # << >> /\ \A i \in 1..Len(cs) : cs[i] \in Digits

RECURSIVE IntOf(_)
\* int(string) for a string of decimal digits
IntOf(cs) ==
    IF Len(cs) = 1 THEN DigitValue(cs[1])
    ELSE 10 * IntOf(SubSeq(cs, 1, Len(cs) - 1)) + DigitValue(cs[Len(cs)])

\* the namespace before any argument is consumed: every dest at its default
Defaults(options) ==
    [d \in {Dest(options[i].flag) : i \in 1..Len(options)} |->
        options[CHOOSE i \in 1..Len(options) : Dest(options[i].flag) = d].default]

ParseError(msg) == [kind |-> "SystemExit", msg |-> msg, ns |-> << >>]

RECURSIVE Consume(_, _, _)
Consume(options, argv, acc) ==
    IF argv = << >> THEN [kind |-> "ok", msg |-> "", ns |-> acc]
    ELSE LET m == {i \in 1..Len(options) : options[i].flag = Head(argv)}
         IN  IF m = {} THEN ParseError("unrecognized arguments")
             ELSE LET o == options[CHOOSE i \in m : TRUE]
                      d == Dest(o.flag)
                  IN  IF o.action = "store_true"
                      THEN Consume(options, Tail(argv), [acc EXCEPT ![d] = TRUE])
                      ELSE IF Len(argv) < 2 THEN ParseError("expected one argument")
                      ELSE IF o.type = "int"
                      THEN (IF IsDigits(argv[2])
                            THEN Consume(options, SubSeq(argv, 3, Len(argv)),
                                         [acc EXCEPT ![d] = IntOf(argv[2])])
                            ELSE ParseError("invalid int value"))
                      ELSE Consume(options, SubSeq(argv, 3, Len(argv)),
                                   [acc EXCEPT ![d] = argv[2]])

ParseArgs(parser, argv) == Consume(parser.options, argv, Defaults(parser.options))

ArgLists ==
    { << >>,
      <<FlagSeed, <<"7">>>>,
      <<FlagSeed, <<"x">>>>,
      <<FlagNumTimesteps, <<"4", "2">>>>,
      <<FlagEnv, <<"P", "o", "n", "g">>>>,
      <<FlagPlay>>,
      <<FlagPlay, FlagSeed>> }

\* parser.parse_args(argv) on the parser behind handle h
parse_args(h, argv) ==
    /\ h \in 1..Len(handles)
    /\ ns' = Some([h |-> h, maker |-> handles[h].maker, added |-> handles[h].added,
                   argv |-> argv, out |-> ParseArgs(heap[handles[h].id], argv)])
    /\ UNCHANGED <<pc, fn, args, global_seed, vec, slots, fs, result, heap, handles>>

ParserNext ==
    \/ arg_parser
    \/ atari_arg_parser
    \/ mujoco_arg_parser
    \/ robotics_arg_parser
    \/ \E h \in 1..MaxParsers, opt \in ExtraOptions : add_argument(h, opt)
    \/ \E h \in 1..MaxParsers, argv \in ArgLists : parse_args(h, argv)

ParserSpec == Init /\ [][ParserNext]_vars

\* ===================================================================
\* Properties
\* ===================================================================
MonitorOf(env) ==
    env.wrappers[CHOOSE i \in 1..Len(env.wrappers) : env.wrappers[i].name = "Monitor"]

\* C1: a finished make_vec_env call has returned (not raised) a vector
\* environment that holds exactly n_envs environments, each wrapped in a
\* Monitor.
C1_MakeVecEnvReturnsMonitored ==
    (pc = "done" /\ fn = "make_vec_env") =>
        /\ result.kind = "return"
        /\ Len(result.envs) = args.n_envs
        /\ \A i \in 1..Len(result.envs) : IsMonitored(result.envs[i])

\* C2: a finished make_vec_env or make_atari_env call has returned a
\* SubprocVecEnv (with the given start_method) exactly when the count is
\* above one and use_subprocess is true, and a DummyVecEnv otherwise.
C2_SingleMultiSwitch ==
    (pc = "done" /\ fn \in {"make_vec_env", "make_atari_env"}) =>
        LET count == IF fn = "make_vec_env" THEN args.n_envs ELSE args.num_env
        IN  /\ result.kind = "return"
            /\ (count > 1 /\ args.use_subprocess) =>
                   /\ result.cls = "SubprocVecEnv"
                   /\ result.start_method = args.start_method
            /\ ~(count > 1 /\ args.use_subprocess) => result.cls = "DummyVecEnv"

\* C3: in make_atari_env the i-th factory holds rank start_index + i, every
\* environment a factory has built is seeded with seed + its own rank and
\* monitored under its own rank, no two environments of the call share a
\* seed, and the call returns num_env environments seeded that way.
C3_AtariSeedControl ==
    fn = "make_atari_env" =>
        /\ Len(vec.env_fns) = args.num_env
        /\ \A i \in 1..Len(slots) :
              /\ vec.env_fns[i].rank = args.start_index + (i - 1)
              /\ slots[i].kind # "pending" =>
                    /\ slots[i].kind = "built"
                    /\ Val(slots[i].env).seed = Some(args.seed + args.start_index + (i - 1))
                    /\ ~IsNone(args.logger_dir) =>
                          MonitorOf(Val(slots[i].env)).filename =
                              Some(Append(Val(args.logger_dir),
                                          Str(args.start_index + (i - 1))))
        /\ \A i, j \in 1..Len(slots) :
              (i # j /\ slots[i].kind = "built" /\ slots[j].kind = "built") =>
                  Val(slots[i].env).seed # Val(slots[j].env).seed
        /\ pc = "done" =>
              /\ result.kind = "return"
              /\ Len(result.envs) = args.num_env
              /\ \A i \in 1..Len(result.envs) :
                    result.envs[i].seed = Some(args.seed + args.start_index + (i - 1))

\* C3 witness: a make_atari_env call over several worker processes, started
\* at a non-zero index, has returned its environments.
C3_Witness ==
    /\ pc = "done"
    /\ fn = "make_atari_env"
    /\ args.num_env >= 2
    /\ args.start_index = 9
    /\ args.seed = 1
    /\ vec.cls = "SubprocVecEnv"
    /\ result.kind = "return"
    /\ result.envs[2].seed = Some(11)

\* C4: a finished make_mujoco_env call has set the global seeds to
\* seed + 10000 * MPI rank and returned, without raising, the environment
\* wrapped in a Monitor with the given allow_early_resets and seeded with
\* seed.
C4_MujocoReturnsMonitored ==
    (pc = "done" /\ fn = "make_mujoco_env") =>
        /\ global_seed = Some(args.seed + 10000 * args.mpi_rank)
        /\ result.kind = "return"
        /\ IsMonitored(result.env)
        /\ MonitorOf(result.env).allow_early_resets = Some(args.allow_early_resets)
        /\ result.env.seed = Some(args.seed)

\* C5: every environment a make_vec_env factory has constructed was
\* constructed with the keyword arguments of env_kwargs (none when
\* env_kwargs is None), for a string ID as for a class.
C5_EnvKwargsPassed ==
    fn = "make_vec_env" =>
        \A k \in 1..Len(slots) :
            ~IsNone(slots[k].env) =>
                Val(slots[k].env).kwargs =
                    (IF args.env_kwargs = None THEN {} ELSE Val(args.env_kwargs))

\* C6: every make_vec_env factory that has run has built its environment
\* with a Monitor whose file name is join(monitor_path, str(rank)) after
\* creating the monitor folder, or, when monitor_path is None, with a
\* Monitor of file name None and no folder created.
C6_MonitorFiles ==
    fn = "make_vec_env" =>
        \A k \in 1..Len(slots) :
            slots[k].kind # "pending" =>
                /\ slots[k].kind = "built"
                /\ IF args.monitor_path = None
                   THEN /\ MonitorOf(Val(slots[k].env)).filename = None
                        /\ slots[k].mkdirs = {}
                   ELSE /\ MonitorOf(Val(slots[k].env)).filename =
                              Some(Append(Val(args.monitor_path),
                                          Str(args.start_index + (k - 1))))
                        /\ slots[k].mkdirs # {}

SameFunction(f, g) ==
    /\ DOMAIN f = DOMAIN g
    /\ \A d \in DOMAIN f : f[d] = g[d]

ExpectedDefaults(maker) ==
    IF maker = "atari_arg_parser"
    THEN (<<"env">> :> "BreakoutNoFrameskip-v4" @@ <<"seed">> :> 0
          @@ <<"num", "_", "timesteps">> :> 10000000)
    ELSE IF maker = "mujoco_arg_parser"
    THEN (<<"env">> :> "Reacher-v2" @@ <<"seed">> :> 0
          @@ <<"num", "_", "timesteps">> :> 1000000 @@ <<"play">> :> FALSE)
    ELSE IF maker = "robotics_arg_parser"
    THEN (<<"env">> :> "FetchReach-v0" @@ <<"seed">> :> 0
          @@ <<"num", "_", "timesteps">> :> 1000000)
    ELSE << >>

ExpectedDest(flag) == IF flag = FlagPlay THEN <<"play">> ELSE <<"log", "_", "dir">>

\* The namespace expected of parsing [] with a parser made by maker to
\* which exactly the options of added were added.
ExpectedNamespace(maker, added) ==
    LET base == ExpectedDefaults(maker)
    IN  [d \in DOMAIN base \cup {ExpectedDest(o.flag) : o \in added} |->
            IF d \in DOMAIN base THEN base[d]
            ELSE (CHOOSE o \in added : ExpectedDest(o.flag) = d).default]

\* C7: parsing an empty argument list gives the documented defaults of the
\* constructor that made the parser, together with the options added to
\* that very parser and none of the options added to another one; the
\* parsers of distinct calls are distinct objects.
C7_ParserDefaults ==
    /\ \A h1, h2 \in 1..Len(handles) : h1 # h2 => handles[h1].id # handles[h2].id
    /\ \A h \in 1..Len(handles) :
          LET out == ParseArgs(heap[handles[h].id], << >>)
          IN  /\ out.kind = "ok"
              /\ SameFunction(out.ns, ExpectedNamespace(handles[h].maker, handles[h].added))
    /\ (ns # None /\ Val(ns).argv = << >>) =>
          /\ Val(ns).out.kind = "ok"
          /\ SameFunction(Val(ns).out.ns, ExpectedNamespace(Val(ns).maker, Val(ns).added))

\* C7 witness: an atari parser has parsed [] to its defaults while another
\* parser holds an option that was added to it.
C7_Witness ==
    /\ ns # None
    /\ Val(ns).argv = << >>
    /\ Val(ns).maker = "atari_arg_parser"
    /\ Val(ns).added = {}
    /\ Val(ns).out.ns[<<"num", "_", "timesteps">>] = 10000000
    /\ \E h \in 1..Len(handles) : h # Val(ns).h /\ handles[h].added # {}

====
